---- MODULE Spec2Model ----
(***************************************************************************)
(* WhatsApp <-> Conversational Agents relay.                               *)
(*                                                                         *)
(* Two processes are modelled, each from its source file:                  *)
(*   - the receiver (src/src/main.py): GET/POST /webhook;                  *)
(*   - the ARQ worker (src/src/worker.py) with the producer side of the    *)
(*     queue (src/src/queue.py).                                           *)
(* Every await of a handler is one step; the outcome of the awaited        *)
(* adapter call (success, failure, returned text) is drawn with \E.        *)
(*                                                                         *)
(* Spec           : the receiver serving POST /webhook requests.           *)
(* SpecGet        : the receiver serving GET /webhook requests.            *)
(* SpecWorker     : producer + worker processing jobs of the durable       *)
(*                  queue, attempts cut off by the job timeout included.   *)
(* SpecWorkerFair : SpecWorker when every awaited call returns or fails.   *)
(* SpecPure       : the pure functions of models.py.                       *)
(* SpecClients    : the get_*_client accessors of the adapter singletons.  *)
(***************************************************************************)
EXTENDS Naturals, Sequences, FiniteSets

VARIABLES
    config,     \* environment read by src/src/config.py, fixed at import
    clients,    \* per process, the adapter singletons constructed so far
    req,        \* receiver: the POST /webhook request being served
    rpc,        \* receiver: position of the request task
    ridx,       \* receiver: messages of the request already handled
    rmsg,       \* receiver: the message being handled
    rtext,      \* receiver: text the current handler is about to send
    rcalls,     \* receiver: adapter calls made for the current message
    response,   \* receiver: HTTP status answered (0 = none yet)
    _pool,      \* queue.py: module-level pool of the producer process
    queue,      \* the durable queue: jobs waiting, with their tries
    nenq,       \* jobs enqueued so far (bounds the model)
    wstate,     \* worker process: "init", "up" or "crashed"
    wpc,        \* worker: position of the job being processed
    job,        \* worker: the job in flight (with its job_try)
    wtext,      \* worker: text the flow is about to feed / send
    werr,       \* worker: the flow of this attempt raised
    wresult,    \* worker: how process_message ended this attempt
    wcalls,     \* worker: adapter calls made in this attempt
    finished,   \* queue: fate of every job the queue is done with
    greq,       \* receiver: the last GET /webhook request
    gresp,      \* receiver: the answer to it (status and body)
    arg,        \* a pure function of the program and the input it is applied to
    out,        \* the value it returned
    replies,    \* history: per job, the final replies that reached its sender
    _client,    \* the module-level singletons of one process: per adapter
                \* client the instance held (0 = None)
    constructed, \* history: per adapter client, the instances constructed
    unclosed    \* history: a pool init_pool created is no longer the
                \* current pool and was never closed

cfgVars == <<config, clients>>
rxVars  == <<req, rpc, ridx, rmsg, rtext, rcalls, response>>
qVars   == <<_pool, queue, nenq, unclosed>>
getVars == <<greq, gresp>>
fnVars  == <<arg, out, _client, constructed>>
wkVars  == <<wstate, wpc, job, wtext, werr, wresult, wcalls, finished, replies>>
vars    == <<cfgVars, rxVars, getVars, qVars, wkVars, fnVars>>

----------------------------------------------------------------------------
(* Bounds of the model *)

MaxMsgs == 2    \* messages carried by one webhook
MaxJobs == 1    \* jobs the producer enqueues in one behaviour
MaxCalls == 3   \* calls of the client getters in one behaviour

(* Program constants *)

\* faulty variant: one attempt more than WorkerSettings allows
max_tries_exceeded == 3 + 1

\* WorkerSettings.max_tries
max_tries == 3

Senders == {"15550001", "+1 555-0002"}

None == "None"

----------------------------------------------------------------------------
(* src/src/models.py *)

\* MessageType: the values of the enum
MessageType ==
    {"text", "image", "document", "audio", "video", "voice", "sticker",
     "location", "contacts", "interactive", "button", "unknown"}

\* type strings a webhook may carry: the enum values and one that is none
TypeStrings == MessageType \cup {"reaction"}

\* the Optional content fields of Message
SlotNames ==
    {"text", "image", "document", "audio", "video", "voice", "sticker",
     "location", "contacts"}

\* faulty variant: the type string is returned whether or not the enum has it
get_message_type_unchecked(m) == m.type

\* Message.get_message_type: MessageType(self.type), UNKNOWN on ValueError
get_message_type(m) ==
    IF m.type \in MessageType THEN m.type ELSE "unknown"

\* truthiness of a content field: a pydantic model is truthy, a list is
\* truthy iff non-empty, None is falsy
Truthy(m, s) ==
    /\ s \in m.slots
    /\ (s = "contacts" => m.ncontacts > 0)

\* faulty variant: the first populated slot is returned, whatever the type
get_content_any_slot(m) ==
    IF      Truthy(m, "text")     THEN m.body
    ELSE IF Truthy(m, "image")    THEN "image"
    ELSE IF Truthy(m, "document") THEN "document"
    ELSE IF Truthy(m, "audio")    THEN "audio"
    ELSE IF Truthy(m, "video")    THEN "video"
    ELSE IF Truthy(m, "voice")    THEN "voice"
    ELSE IF Truthy(m, "sticker")  THEN "sticker"
    ELSE IF Truthy(m, "location") THEN "location"
    ELSE IF Truthy(m, "contacts") THEN "contacts"
    ELSE None

\* Message.get_content: the if/elif chain over the typed slots; the text
\* slot yields its body, every other slot its record (named by the slot)
get_content(m) ==
    LET t == get_message_type(m) IN
    IF      t = "text"     /\ Truthy(m, "text")     THEN m.body
    ELSE IF t = "image"    /\ Truthy(m, "image")    THEN "image"
    ELSE IF t = "document" /\ Truthy(m, "document") THEN "document"
    ELSE IF t = "audio"    /\ Truthy(m, "audio")    THEN "audio"
    ELSE IF t = "video"    /\ Truthy(m, "video")    THEN "video"
    ELSE IF t = "voice"    /\ Truthy(m, "voice")    THEN "voice"
    ELSE IF t = "sticker"  /\ Truthy(m, "sticker")  THEN "sticker"
    ELSE IF t = "location" /\ Truthy(m, "location") THEN "location"
    ELSE IF t = "contacts" /\ Truthy(m, "contacts") THEN "contacts"
    ELSE None

\* the content slots a message of type t is drawn with: none, the one
\* matching its type, or only the text slot
SlotChoices(t) == {{}, {t} \cap SlotNames, {"text"}}

\* the id of a message that is none
NoId == <<>>

\* the messages a webhook body may carry under the id i
Messages(i) ==
    UNION { UNION { { [from |-> f, id |-> i, type |-> t, slots |-> s, ncontacts |-> c,
                       body |-> b] :
                        f \in Senders,
                        c \in IF "contacts" \in s THEN {0, 1} ELSE {0},
                        b \in IF "text" \in s THEN {"", "hi"} ELSE {""} } :
                    s \in SlotChoices(t) } :
            t \in TypeStrings }

NoMsg == [from |-> "", id |-> NoId, type |-> "", slots |-> {}, ncontacts |-> 0,
          body |-> ""]

\* the messages the methods of Message are applied to on their own: type
\* strings of the enum, in another case, empty or unheard of, and up to two
\* populated slots, whatever the type
TestMessages ==
    UNION { UNION { { [from |-> "15550001", id |-> NoId, type |-> t, slots |-> s,
                       ncontacts |-> c, body |-> b] :
                        c \in IF "contacts" \in s THEN {0, 1} ELSE {0},
                        b \in IF "text" \in s THEN {"", "hi"} ELSE {""} } :
                    s \in { {x, y} : x \in SlotNames, y \in SlotNames } \cup {{}} } :
            t \in TypeStrings \cup {"TEXT", ""} }

\* Change.value of change c of entry e: `messages` is absent (code 0, as in
\* a status update) or a list of code - 1 messages; a message of the
\* payload is named by its place <<e, c, k>>, its fields are drawn from
\* Messages when the loop reaches it
Change(e, c, code) ==
    [has_messages |-> code > 0,
     messages     |-> IF code > 1 THEN [k \in 1..(code - 1) |-> <<e, c, k>>]
                      ELSE <<>>]

\* Entry.changes
Entry(e, codes) == [c \in 1..Len(codes) |-> Change(e, c, codes[c])]

\* WebhookPayload.entry
Payload(shape) == [e \in 1..Len(shape) |-> Entry(e, shape[e])]

\* faulty variant: a change without messages (a status update) yields a
\* message of its own
RECURSIVE extend_changes_statuses(_)
extend_changes_statuses(changes) ==
    IF changes = <<>> THEN <<>>
    ELSE LET value == Head(changes) IN
         (IF value.has_messages /\ Len(value.messages) > 0
          THEN value.messages ELSE << <<0, 0, 0>> >>)
         \o extend_changes_statuses(Tail(changes))

\* "if change.value.messages: messages.extend(change.value.messages)" over
\* the changes of one entry
RECURSIVE extend_changes(_)
extend_changes(changes) ==
    IF changes = <<>> THEN <<>>
    ELSE LET value == Head(changes) IN
         (IF value.has_messages /\ Len(value.messages) > 0
          THEN value.messages ELSE <<>>) \o extend_changes(Tail(changes))

\* faulty variant: the messages of a later entry come first
RECURSIVE get_messages_reversed(_)
get_messages_reversed(payload) ==
    IF payload = <<>> THEN <<>>
    ELSE get_messages_reversed(Tail(payload)) \o extend_changes(Head(payload))

\* WebhookPayload.get_messages: the loop over the entries
RECURSIVE get_messages(_)
get_messages(payload) ==
    IF payload = <<>> THEN <<>>
    ELSE extend_changes(Head(payload)) \o get_messages(Tail(payload))

\* the shapes of the payloads a webhook may carry, as the codes of the
\* changes of each entry: payloads without a message (no entry, an entry
\* without changes, status updates only, an empty messages list) and
\* payloads with n messages in one change, after a status update, spread
\* over two changes, or spread over two entries
Shapes ==
    { <<>>, << <<>> >>, << <<0>> >>, << <<1>> >>, << <<0>>, <<0>> >> }
    \cup { << <<n + 1>> >>       : n \in 1..MaxMsgs }
    \cup { << <<0, n + 1>> >>    : n \in 1..MaxMsgs }
    \cup { << <<2, n>> >>        : n \in 1..MaxMsgs }
    \cup { << <<2>>, <<n>> >>    : n \in 1..MaxMsgs }

\* the payloads a well-formed webhook body may parse into
Payloads == { Payload(shape) : shape \in Shapes }

\* the shapes get_messages is applied to on its own: up to two entries of up
\* to two changes each, every change without a messages list, with an empty
\* one, or with up to MaxMsgs messages
ChangeCodes ==
    LET codes == 0..(MaxMsgs + 1) IN
    {<<>>} \cup { <<a>> : a \in codes } \cup { <<a, b>> : a, b \in codes }

TestShapes ==
    {<<>>} \cup { <<x>> : x \in ChangeCodes }
           \cup { <<x, y>> : x, y \in ChangeCodes }

----------------------------------------------------------------------------
(* src/src/config.py *)

\* the secret the platform signs webhooks with
PlatformSecret == "k"

\* the verification token registered with the platform
VerificationToken == "vtoken"

\* the environments the processes may be started in: each variable is set
\* or unset (APP_SECRET: unset, empty or the platform's secret); the
\* verification token is read by GET /webhook alone, it is unset or empty
\* only in the environment that has nothing else
Configs ==
    [APP_SECRET : {None, "", PlatformSecret}, ACCESS_TOKEN : BOOLEAN,
     CA : BOOLEAN, GEMINI_API_KEY : BOOLEAN,
     WEBHOOK_VERIFICATION_TOKEN : {VerificationToken}]
    \cup
    [APP_SECRET : {None}, ACCESS_TOKEN : {FALSE},
     CA : {FALSE}, GEMINI_API_KEY : {FALSE},
     WEBHOOK_VERIFICATION_TOKEN : {None, ""}]

\* the constructor of client c succeeds iff its configuration is present
Configured(c) ==
    IF      c = "whatsapp" THEN config.ACCESS_TOKEN
    ELSE IF c = "ca"       THEN config.CA
    ELSE                        config.GEMINI_API_KEY

\* get_whatsapp_client / get_ca_client / get_gemini_client, called with the
\* set cl of singletons already constructed: ok iff the singleton is
\* returned, cl the singletons afterwards
get_client(cl, c) ==
    IF c \in cl \/ Configured(c)
    THEN [ok |-> TRUE,  cl |-> cl \cup {c}]
    ELSE [ok |-> FALSE, cl |-> cl]

----------------------------------------------------------------------------
(* src/src/security.py *)

\* what keeps a raw body from passing WebhookPayload.model_validate_json:
\* nothing, broken JSON, a missing required field, or a wrong literal for
\* object / field / messaging_product
Defects ==
    {"none", "syntax", "missing_field", "object", "field", "messaging_product"}

\* a raw webhook body: its defect and, when it has none, the payload it
\* parses into
Bodies ==
    { [defect |-> "none", payload |-> p] : p \in Payloads }
    \cup { [defect |-> d, payload |-> <<>>] : d \in Defects \ {"none"} }

NoBody == [defect |-> "syntax", payload |-> <<>>]

\* a body that differs from b in one bit
flip_body(b) ==
    IF b.defect = "none" THEN [defect |-> "syntax", payload |-> <<>>]
    ELSE [defect |-> "none", payload |-> <<>>]

\* a signature header is a sequence of tokens: the literal "sha256=" and
\* hex digests; the keyed hash is injective in (key, body); `flip` tells
\* which bit of one character of the digest was inverted afterwards: none,
\* a low bit (the character stays ASCII) or the high bit (it does not)
PrefixTok == [k |-> "sha256=", key |-> "", body |-> NoBody, flip |-> "none"]

hexdigest(key, body) == <<[k |-> "hex", key |-> key, body |-> body, flip |-> "none"]>>

Bits == {"low", "high"}

\* the digest d with one bit inverted
flip_digest(d, bit) == <<[d[1] EXCEPT !.flip = bit]>>

\* the header is made of ASCII characters only
is_ascii(signature) ==
    \A i \in 1..Len(signature) : signature[i].flip # "high"

\* the X-Hub-Signature-256 headers a request for body b may carry
Headers(b) ==
    { <<PrefixTok>> \o hexdigest(PlatformSecret, b),
      hexdigest(PlatformSecret, b),
      <<PrefixTok>> \o hexdigest("forged", b),
      <<PrefixTok>> \o hexdigest("", b),
      <<PrefixTok>> \o hexdigest(PlatformSecret, flip_body(b)),
      hexdigest(PlatformSecret, flip_body(b)),
      <<PrefixTok>>,
      <<>> }
    \cup { <<PrefixTok>> \o flip_digest(hexdigest(PlatformSecret, b), i) : i \in Bits }
    \cup { flip_digest(hexdigest(PlatformSecret, b), i) : i \in Bits }

\* hmac.compare_digest raises TypeError when a str argument has a non-ASCII
\* character; it is reached only with a configured secret
verify_raises(payload, signature) ==
    /\ config.APP_SECRET \notin {None, ""}
    /\ ~is_ascii(signature)

\* faulty variant: the hash is computed without looking at the secret first
verify_without_secret_check(payload, signature) ==
    LET sig == IF Len(signature) >= 1 /\ signature[1] = PrefixTok
               THEN Tail(signature) ELSE signature
        expected_signature == hexdigest(config.APP_SECRET, payload)
    IN  expected_signature = sig

\* verify_webhook_signature: the value it returns when it does not raise
verify_webhook_signature(payload, signature) ==
    IF config.APP_SECRET \in {None, ""} THEN FALSE
    ELSE
        LET sig == IF Len(signature) >= 1 /\ signature[1] = PrefixTok
                   THEN Tail(signature) ELSE signature
            expected_signature == hexdigest(config.APP_SECRET, payload)
        IN  expected_signature = sig

----------------------------------------------------------------------------
(* Adapter calls and the texts they carry *)

\* one adapter call: the operation, the recipient (send), the message id
\* (mark-as-read), the text passed, whether the call succeeded, the text
\* it returned (detect_intent), and whether it was cut off while awaited
Call(op, to, id, text, ok) ==
    [op |-> op, to |-> to, id |-> id, text |-> text, ok |-> ok, ret |-> "",
     session |-> <<>>, cancelled |-> FALSE]

\* the call, having returned the response text r
Returned(call, r) == [call EXCEPT !.ret = r]

\* the call, cut off before it returned or raised
Cancelled(call) == [call EXCEPT !.ok = FALSE, !.cancelled = TRUE]

\* the characters of a user id
chars(user_id) ==
    IF user_id = "15550001"
    THEN <<"1", "5", "5", "5", "0", "0", "0", "1">>
    ELSE <<"+", "1", " ", "5", "5", "5", "-", "0", "0", "0", "2">>

\* the default session_prefix of ConversationalAgentClient: "meta-whatsapp"
session_prefix ==
    <<"m", "e", "t", "a", "-", "w", "h", "a", "t", "s", "a", "p", "p">>

\* str.replace(old, ""): every occurrence of the character is removed
RECURSIVE replace(_, _)
replace(str, old) ==
    IF str = <<>> THEN <<>>
    ELSE (IF Head(str) = old THEN <<>> ELSE <<Head(str)>>) \o replace(Tail(str), old)

\* faulty variant: the user id is used as it comes
_build_session_id_raw(prefix, user_id) == prefix \o <<"-">> \o user_id

\* ConversationalAgentClient._build_session_id
_build_session_id(prefix, user_id) ==
    LET clean_user_id == replace(replace(replace(user_id, "+"), "-"), " ")
    IN  prefix \o <<"-">> \o clean_user_id

\* detect_intent builds the session of its call from user_id (lines 122-124)
WithSession(call) ==
    [call EXCEPT !.session = _build_session_id(session_prefix, chars(call.to))]

Fallback == "I'm not sure how to help with that. Could you please rephrase?"

Apology == "Sorry, I encountered an error processing your message. Please try again."

\* texts the intent adapter may return as response_text
ResponseTexts == {"", "agent reply"}

\* text the media-understanding adapter returns
Summary == "media summary"

\* faulty variant: the response text is sent as the adapter returned it
reply_text_verbatim(response_text) == response_text

\* "if not response_text: response_text = <fallback>"
reply_text(response_text) ==
    IF response_text = "" THEN Fallback ELSE response_text

\* the receiver's reply to a media message: a caption line and the summary
rx_media_reply(t) ==
    IF      t = "image"    THEN "Image Analysis: media summary"
    ELSE IF t = "document" THEN "Document Summary: media summary"
    ELSE                        "Audio Transcription: media summary"

\* the media-understanding call made for a message type
process_media(t) ==
    IF      t = "image"    THEN "process_image"
    ELSE IF t = "document" THEN "process_document"
    ELSE                        "process_audio"

----------------------------------------------------------------------------
(* src/src/main.py: GET /webhook *)

\* the query of a GET /webhook request: hub.mode, hub.verify_token and
\* hub.challenge, and whether all three parameters are there
Queries ==
    [complete : BOOLEAN, mode : {"subscribe", "unsubscribe", ""},
     token : {VerificationToken, "wrong", ""},
     challenge : {"1158201444", "challenge"}]

NoQuery == [complete |-> FALSE, mode |-> "", token |-> "", challenge |-> ""]

\* faulty variant: the mode is not looked at
handle_get_webhook_token_only ==
    /\ \E q \in Queries :
        /\ greq' = q
        /\ gresp' =
             IF ~q.complete THEN [status |-> 422, body |-> "missing"]
             ELSE IF q.token = config.WEBHOOK_VERIFICATION_TOKEN
                  THEN [status |-> 200, body |-> q.challenge]
             ELSE [status |-> 403, body |-> "Verification failed"]
    /\ UNCHANGED <<cfgVars, rxVars, qVars, wkVars, fnVars>>

\* handle_get_webhook, lines 44-63: the three query parameters are
\* required (FastAPI answers 422 when one is missing); the challenge is
\* returned as plain text, HTTPException(403) otherwise
handle_get_webhook ==
    /\ \E q \in Queries :
        /\ greq' = q
        /\ gresp' =
             IF ~q.complete THEN [status |-> 422, body |-> "missing"]
             ELSE IF q.mode = "subscribe" /\ q.token = config.WEBHOOK_VERIFICATION_TOKEN
                  THEN [status |-> 200, body |-> q.challenge]
             ELSE [status |-> 403, body |-> "Verification failed"]
    /\ UNCHANGED <<cfgVars, rxVars, qVars, wkVars, fnVars>>

----------------------------------------------------------------------------
(* src/src/main.py: POST /webhook *)

\* a request: whether it carries the X-Hub-Signature-256 header, the
\* header's value and the raw body
NoReq == [has_signature |-> FALSE, header |-> <<>>, body |-> NoBody]

\* WebhookPayload.model_validate_json(body) returns a payload
model_validate_json(body) == body.defect = "none"

\* message types whose receiver handler has a try/except around its calls
RxGuarded == {"text", "image", "document", "audio", "voice"}

\* message types whose receiver handler only logs its content
RxStubs == {"video", "location", "contacts"}

\* the error text of the receiver's handler for message type t
rx_apology(t) ==
    IF      t = "text"     THEN Apology
    ELSE IF t = "image"    THEN "Sorry, I encountered an error processing your image. Please try again."
    ELSE IF t = "document" THEN "Sorry, I encountered an error processing your document. Please try again."
    ELSE                        "Sorry, I encountered an error processing your audio. Please try again."

\* the except clause of a guarded handler, entered with singletons cl:
\* get_whatsapp_client() again, then the apology is sent; if the client
\* cannot be constructed the inner except passes and the handler returns
rx_except(cl) ==
    LET g == get_client(cl, "whatsapp") IN
    IF g.ok THEN [pc |-> "apology", inc |-> 0, cl |-> g.cl, status |-> 0]
    ELSE         [pc |-> "loop",    inc |-> 1, cl |-> cl,   status |-> 0]

\* the handler returned normally: the loop goes on with the next message
rx_return(cl) == [pc |-> "loop", inc |-> 1, cl |-> cl, status |-> 0]

\* an exception left the handler: FastAPI answers 500
rx_crash(cl) == [pc |-> "done", inc |-> 0, cl |-> cl, status |-> 500]

\* the body of the for loop for message m (lines 105-132) and the called
\* handler up to its first await
route(m, cl) ==
    LET message_type == get_message_type(m)
        content      == get_content(m)
        g            == get_client(cl, "whatsapp")
    IN
    IF message_type = "text" THEN
        IF g.ok THEN [pc |-> "mark", inc |-> 0, cl |-> g.cl, status |-> 0]
        ELSE rx_except(cl)
    ELSE IF message_type \in RxGuarded THEN
        \* content.id in the log line before the try
        IF content = None THEN rx_crash(cl)
        ELSE IF g.ok THEN [pc |-> "mark", inc |-> 0, cl |-> g.cl, status |-> 0]
        ELSE rx_except(cl)
    ELSE IF message_type \in RxStubs THEN
        \* content.id / content.latitude / len(content) in the log line
        IF content = None THEN rx_crash(cl) ELSE rx_return(cl)
    ELSE rx_return(cl)

\* the receiver moves as outcome o says
RxMove(o) ==
    /\ rpc' = o.pc
    /\ ridx' = ridx + o.inc
    /\ response' = o.status
    /\ clients' = [clients EXCEPT !.receiver = o.cl]

\* handle_post_webhook, lines 66-102: the required header (FastAPI answers
\* 422 without it), signature (an exception leaving the check is answered
\* 500), parse, empty check
handle_post_webhook ==
    /\ rpc = "idle"
    /\ \E b \in Bodies :
        \/ /\ req' = [has_signature |-> FALSE, header |-> <<>>, body |-> b]
           /\ response' = 422
           /\ rpc' = "done"
        \/ \E h \in Headers(b) :
            /\ req' = [has_signature |-> TRUE, header |-> h, body |-> b]
            /\ IF verify_raises(b, h)
                 THEN response' = 500 /\ rpc' = "done"
               ELSE IF ~verify_webhook_signature(b, h)
                 THEN response' = 403 /\ rpc' = "done"
               ELSE IF ~model_validate_json(b)
                 THEN response' = 400 /\ rpc' = "done"
               ELSE IF get_messages(b.payload) = <<>>
                 THEN response' = 200 /\ rpc' = "done"
               ELSE response' = 0 /\ rpc' = "loop"
    /\ ridx' = 0
    /\ rmsg' = NoMsg
    /\ rtext' = ""
    /\ rcalls' = <<>>
    /\ UNCHANGED <<cfgVars, qVars, wkVars, fnVars, getVars>>

\* the for loop over the messages, lines 105-132
RouteMessage ==
    /\ rpc = "loop"
    /\ ridx < Len(get_messages(req.body.payload))
    /\ \E m \in Messages(get_messages(req.body.payload)[ridx + 1]) :
        /\ rmsg' = m
        /\ RxMove(route(m, clients.receiver))
    /\ rtext' = ""
    /\ rcalls' = <<>>
    /\ UNCHANGED <<config, req, qVars, wkVars, fnVars, getVars>>

\* faulty variant: a failed mark-as-read raises into the handler's except clause
RxMarkRaises ==
    /\ rpc = "mark"
    /\ \E ok \in BOOLEAN :
        /\ rcalls' = Append(rcalls, Call("mark_message_as_read", "", rmsg.id, "", ok))
        /\ LET t == get_message_type(rmsg)
               g == get_client(clients.receiver, "ca")
           IN  IF ~ok THEN RxMove(rx_except(clients.receiver))
               ELSE IF t = "text" THEN
                   IF g.ok THEN RxMove([pc |-> "detect", inc |-> 0, cl |-> g.cl, status |-> 0])
                   ELSE RxMove(rx_except(clients.receiver))
               ELSE RxMove([pc |-> "download", inc |-> 0, cl |-> clients.receiver, status |-> 0])
    /\ UNCHANGED <<config, req, rmsg, rtext, qVars, wkVars, fnVars, getVars>>

\* await whatsapp_client.mark_message_as_read(message_id): never raises;
\* then get_ca_client() (text) or the download (media)
RxMarkRead ==
    /\ rpc = "mark"
    /\ \E ok \in BOOLEAN :
        rcalls' = Append(rcalls, Call("mark_message_as_read", "", rmsg.id, "", ok))
    /\ LET t == get_message_type(rmsg)
           g == get_client(clients.receiver, "ca")
       IN  IF t = "text" THEN
               IF g.ok THEN RxMove([pc |-> "detect", inc |-> 0, cl |-> g.cl, status |-> 0])
               ELSE RxMove(rx_except(clients.receiver))
           ELSE RxMove([pc |-> "download", inc |-> 0, cl |-> clients.receiver, status |-> 0])
    /\ UNCHANGED <<config, req, rmsg, rtext, qVars, wkVars, fnVars, getVars>>

\* await ca_client.detect_intent(text=content, user_id=sender)
RxDetectIntent ==
    /\ rpc = "detect"
    /\ \/ \E r \in ResponseTexts :
            /\ rcalls' = Append(rcalls,
                    WithSession(Returned(
                        Call("detect_intent", rmsg.from, NoId, get_content(rmsg), TRUE), r)))
            /\ rtext' = reply_text(r)
            /\ RxMove([pc |-> "send", inc |-> 0, cl |-> clients.receiver, status |-> 0])
       \/ /\ rcalls' = Append(rcalls,
                WithSession(Call("detect_intent", rmsg.from, NoId, get_content(rmsg), FALSE)))
          /\ rtext' = rtext
          /\ RxMove(rx_except(clients.receiver))
    /\ UNCHANGED <<config, req, rmsg, qVars, wkVars, fnVars, getVars>>

\* await whatsapp_client.download_media(content.id), then get_gemini_client()
RxDownloadMedia ==
    /\ rpc = "download"
    /\ \E ok \in BOOLEAN :
        /\ rcalls' = Append(rcalls, Call("download_media", "", NoId, get_content(rmsg), ok))
        /\ LET g == get_client(clients.receiver, "gemini") IN
           IF ok /\ g.ok
           THEN RxMove([pc |-> "infer", inc |-> 0, cl |-> g.cl, status |-> 0])
           ELSE RxMove(rx_except(clients.receiver))
    /\ UNCHANGED <<config, req, rmsg, rtext, qVars, wkVars, fnVars, getVars>>

\* await gemini_client.process_image / process_document / process_audio;
\* the reply is built from the summary
RxProcessMedia ==
    /\ rpc = "infer"
    /\ \E ok \in BOOLEAN :
        /\ rcalls' = Append(rcalls, Call(process_media(get_message_type(rmsg)), "", NoId, "", ok))
        /\ IF ok
           THEN /\ rtext' = rx_media_reply(get_message_type(rmsg))
                /\ RxMove([pc |-> "send", inc |-> 0, cl |-> clients.receiver, status |-> 0])
           ELSE /\ rtext' = rtext
                /\ RxMove(rx_except(clients.receiver))
    /\ UNCHANGED <<config, req, rmsg, qVars, wkVars, fnVars, getVars>>

\* await whatsapp_client.send_text_message(sender, response)
RxSendReply ==
    /\ rpc = "send"
    /\ \E ok \in BOOLEAN :
        /\ rcalls' = Append(rcalls, Call("send_text_message", rmsg.from, NoId, rtext, ok))
        /\ IF ok THEN RxMove(rx_return(clients.receiver))
                 ELSE RxMove(rx_except(clients.receiver))
    /\ UNCHANGED <<config, req, rmsg, rtext, qVars, wkVars, fnVars, getVars>>

\* the except clause: send the error text; a failure of it is passed over
RxSendApology ==
    /\ rpc = "apology"
    /\ \E ok \in BOOLEAN :
        rcalls' = Append(rcalls, Call("send_text_message", rmsg.from, NoId,
                                      rx_apology(get_message_type(rmsg)), ok))
    /\ RxMove(rx_return(clients.receiver))
    /\ UNCHANGED <<config, req, rmsg, rtext, qVars, wkVars, fnVars, getVars>>

\* line 135: every message was handled, 200 {"status": "ok"}
RxRespond ==
    /\ rpc = "loop"
    /\ ridx = Len(get_messages(req.body.payload))
    /\ rpc' = "done"
    /\ response' = 200
    /\ UNCHANGED <<cfgVars, req, ridx, rmsg, rtext, rcalls, qVars, wkVars, fnVars, getVars>>

\* the response has left; the request task ends and its locals are gone,
\* the singletons of the process stay
RxReturn ==
    /\ rpc = "done"
    /\ rpc' = "idle"
    /\ req' = NoReq
    /\ ridx' = 0
    /\ rmsg' = NoMsg
    /\ rtext' = ""
    /\ rcalls' = <<>>
    /\ response' = 0
    /\ UNCHANGED <<cfgVars, qVars, wkVars, fnVars, getVars>>

----------------------------------------------------------------------------
(* src/src/queue.py: the producer side of the queue *)

\* the kinds of content_data a job may carry: None, a non-empty string, or
\* the serialised record of a media item, a location or a contact list
ContentKinds == {None, "str", "media", "location", "contacts"}

\* the type strings process_message tells apart: those of its handler
\* table, an enum value without a handler, and a string outside the enum
JobTypes ==
    {"text", "image", "document", "audio", "voice", "video", "location",
     "contacts", "sticker", "reaction"}

\* the contents a job of type t is enqueued with: none, a string, and the
\* record the handler of t constructs its content from (a media record for
\* the types without a handler); every other record fails that constructor
\* as a string does
Contents(t) ==
    { c \in ContentKinds :
        \/ c \in {None, "str"}
        \/ c = (IF t \in {"location", "contacts"} THEN t ELSE "media") /\ t # "text" }

\* the sender of a job is only passed on, to the adapters: one sender, with
\* the characters a session id leaves out
JobSenders == {"+1 555-0002"}

\* the jobs enqueue_message_task may be called with: any type string,
\* contents that parse and contents that do not
Jobs(id) ==
    UNION { { [sender |-> f, message_type |-> t, content_data |-> c,
               message_id |-> id, tries |-> 0] :
                f \in JobSenders, c \in Contents(t) } :
            t \in JobTypes }

NoJob == [sender |-> "", message_type |-> "", content_data |-> None,
          message_id |-> 0, tries |-> 0]

\* init_pool: _pool = await create_pool(...); a pool that _pool held is
\* overwritten as it is
init_pool ==
    /\ _pool' = "open"
    /\ unclosed' = (unclosed \/ _pool # None)
    /\ UNCHANGED <<cfgVars, rxVars, getVars, queue, nenq, wkVars, fnVars>>

\* close_pool: closes and forgets the pool, if there is one; it does
\* nothing when there is none
close_pool ==
    /\ _pool' = None
    /\ UNCHANGED <<cfgVars, rxVars, getVars, queue, nenq, unclosed, wkVars, fnVars>>

\* enqueue_message_task: get_pool() raises unless a pool is open; the job
\* enters the queue with no attempt made
enqueue_message_task ==
    /\ _pool # None
    /\ nenq < MaxJobs
    /\ \E j \in Jobs(nenq + 1) : queue' = queue \cup {j}
    /\ nenq' = nenq + 1
    /\ UNCHANGED <<cfgVars, rxVars, getVars, _pool, unclosed, wkVars, fnVars>>

----------------------------------------------------------------------------
(* src/src/worker.py *)

\* the handler table of process_message
handlers ==
    [text |-> "_handle_text", image |-> "_handle_image",
     document |-> "_handle_document", audio |-> "_handle_audio",
     voice |-> "_handle_audio", video |-> "_handle_video",
     location |-> "_handle_location", contacts |-> "_handle_contacts"]

\* faulty variant: a type without a handler is handled as text
handler_of_text_default(message_type) ==
    IF message_type \in DOMAIN handlers THEN handlers[message_type]
    ELSE "_handle_text"

\* handlers.get(message_type), _handle_unsupported when there is none
handler_of(message_type) ==
    IF message_type \in DOMAIN handlers THEN handlers[message_type]
    ELSE "_handle_unsupported"

MediaHandlers == {"_handle_image", "_handle_document", "_handle_audio"}

\* MediaMessage(**content_data), LocationMessage(**content_data),
\* [Contact(**c) for c in content_data]: does the constructor accept it
parses(handler, content_data) ==
    IF      handler \in MediaHandlers \cup {"_handle_video"} THEN content_data = "media"
    ELSE IF handler = "_handle_location" THEN content_data = "location"
    ELSE IF handler = "_handle_contacts" THEN content_data = "contacts"
    ELSE TRUE

\* the interim notice of a media handler
notice(handler) ==
    IF      handler = "_handle_image"    THEN "Reading image..."
    ELSE IF handler = "_handle_document" THEN "Reading document..."
    ELSE                                      "Listening to audio..."

\* the media-understanding call of a media handler
wk_process_media(handler) ==
    IF      handler = "_handle_image"    THEN "process_image"
    ELSE IF handler = "_handle_document" THEN "process_document"
    ELSE                                      "process_audio"

\* startup: the three singletons are constructed in order; a constructor
\* that raises ends the worker process
startup ==
    /\ wstate = "init"
    /\ LET g1 == get_client(clients.worker, "whatsapp")
           g2 == get_client(g1.cl, "ca")
           g3 == get_client(g2.cl, "gemini")
       IN  IF ~g1.ok THEN
               wstate' = "crashed" /\ clients' = [clients EXCEPT !.worker = g1.cl]
           ELSE IF ~g2.ok THEN
               wstate' = "crashed" /\ clients' = [clients EXCEPT !.worker = g2.cl]
           ELSE IF ~g3.ok THEN
               wstate' = "crashed" /\ clients' = [clients EXCEPT !.worker = g3.cl]
           ELSE
               wstate' = "up" /\ clients' = [clients EXCEPT !.worker = g3.cl]
    /\ UNCHANGED <<config, rxVars, getVars, fnVars, qVars, wpc, job, wtext, werr, wresult, wcalls, finished, replies>>

\* the flow goes on to the await at pc
wk_goto(pc) == [pc |-> pc, err |-> FALSE, result |-> "none"]

\* the flow ended without an error: process_message returns
wk_return == [pc |-> "return", err |-> FALSE, result |-> "returned"]

\* faulty variant: the except clause only logs, no apology is sent
wk_except_silent == [pc |-> "return", err |-> TRUE, result |-> "returned"]

\* the flow raised: the except clause of process_message (lines 51-60)
\* gets the client and sends the apology
wk_except ==
    IF get_client(clients.worker, "whatsapp").ok
    THEN [pc |-> "apology", err |-> TRUE, result |-> "none"]
    ELSE [pc |-> "return",  err |-> TRUE, result |-> "returned"]

\* faulty variant: a type without a handler raises into the except clause
dispatch_unsupported_raises(j) ==
    LET handler == handler_of(j.message_type) IN
    IF      handler = "_handle_text"        THEN wk_goto("detect")
    ELSE IF handler = "_handle_unsupported" THEN wk_except
    ELSE IF ~parses(handler, j.content_data) THEN wk_except
    ELSE IF handler \in MediaHandlers       THEN wk_goto("interim")
    ELSE wk_return

\* process_message lines 33-49 and the handler up to its first await
dispatch(j) ==
    LET handler == handler_of(j.message_type) IN
    IF      handler = "_handle_text"        THEN wk_goto("detect")
    ELSE IF handler = "_handle_unsupported" THEN wk_return
    ELSE IF ~parses(handler, j.content_data) THEN wk_except
    ELSE IF handler \in MediaHandlers       THEN wk_goto("interim")
    ELSE wk_return

\* the worker moves as outcome o says
WkMove(o) ==
    /\ wpc' = o.pc
    /\ werr' = (werr \/ o.err)
    /\ wresult' = o.result

\* the queue hands a waiting job to process_message: one more attempt
StartJob ==
    /\ wstate = "up"
    /\ wpc = "idle"
    /\ \E j \in queue :
        /\ queue' = queue \ {j}
        /\ job' = [j EXCEPT !.tries = @ + 1]
        /\ wtext' = j.content_data
        /\ wpc' = dispatch(j).pc
        /\ werr' = dispatch(j).err
        /\ wresult' = dispatch(j).result
    /\ wcalls' = <<>>
    /\ UNCHANGED <<cfgVars, rxVars, getVars, fnVars, _pool, nenq, unclosed, wstate, finished, replies>>

\* faulty variant: a failed interim notice is swallowed and the flow goes on
WkSendNoticeSwallowed ==
    /\ wpc = "interim"
    /\ \E ok \in BOOLEAN :
        wcalls' = Append(wcalls, Call("send_text_message", job.sender, 0,
                                      notice(handler_of(job.message_type)), ok))
    /\ WkMove(wk_goto("download"))
    /\ UNCHANGED <<cfgVars, rxVars, getVars, fnVars, qVars, wstate, job, wtext, finished, replies>>

\* await whatsapp_client.send_text_message(sender, "Reading image...")
WkSendNotice ==
    /\ wpc = "interim"
    /\ \E ok \in BOOLEAN :
        /\ wcalls' = Append(wcalls, Call("send_text_message", job.sender, 0,
                                         notice(handler_of(job.message_type)), ok))
        /\ IF ok THEN WkMove(wk_goto("download")) ELSE WkMove(wk_except)
    /\ UNCHANGED <<cfgVars, rxVars, getVars, fnVars, qVars, wstate, job, wtext, finished, replies>>

\* await whatsapp_client.download_media(content.id)
WkDownloadMedia ==
    /\ wpc = "download"
    /\ \E ok \in BOOLEAN :
        /\ wcalls' = Append(wcalls, Call("download_media", "", 0, job.content_data, ok))
        /\ IF ok THEN WkMove(wk_goto("infer")) ELSE WkMove(wk_except)
    /\ UNCHANGED <<cfgVars, rxVars, getVars, fnVars, qVars, wstate, job, wtext, finished, replies>>

\* await gemini_client.process_image / process_document / process_audio
WkProcessMedia ==
    /\ wpc = "infer"
    /\ \E ok \in BOOLEAN :
        /\ wcalls' = Append(wcalls, Call(wk_process_media(handler_of(job.message_type)),
                                         "", 0, "", ok))
        /\ IF ok THEN wtext' = Summary /\ WkMove(wk_goto("detect"))
                 ELSE wtext' = wtext /\ WkMove(wk_except)
    /\ UNCHANGED <<cfgVars, rxVars, getVars, fnVars, qVars, wstate, job, finished, replies>>

\* await ca_client.detect_intent(text=..., user_id=sender)
WkDetectIntent ==
    /\ wpc = "detect"
    /\ \/ \E r \in ResponseTexts :
            /\ wcalls' = Append(wcalls,
                    WithSession(Returned(Call("detect_intent", job.sender, 0, wtext, TRUE), r)))
            /\ wtext' = reply_text(r)
            /\ WkMove(wk_goto("reply"))
       \/ /\ wcalls' = Append(wcalls,
                WithSession(Call("detect_intent", job.sender, 0, wtext, FALSE)))
          /\ wtext' = wtext
          /\ WkMove(wk_except)
    /\ UNCHANGED <<cfgVars, rxVars, getVars, fnVars, qVars, wstate, job, finished, replies>>

\* faulty variant: the handler raises after the reply was sent
WkSendReplyThenRaises ==
    /\ wpc = "reply"
    /\ \E ok \in BOOLEAN :
        /\ wcalls' = Append(wcalls, Call("send_text_message", job.sender, 0, wtext, ok))
        /\ replies' = IF ok THEN [replies EXCEPT ![job.message_id] = @ + 1]
                            ELSE replies
    /\ WkMove(wk_except)
    /\ UNCHANGED <<cfgVars, rxVars, getVars, fnVars, qVars, wstate, job, wtext, finished>>

\* await whatsapp_client.send_text_message(sender, response_text)
WkSendReply ==
    /\ wpc = "reply"
    /\ \E ok \in BOOLEAN :
        /\ wcalls' = Append(wcalls, Call("send_text_message", job.sender, 0, wtext, ok))
        /\ replies' = IF ok THEN [replies EXCEPT ![job.message_id] = @ + 1]
                            ELSE replies
        /\ IF ok THEN WkMove(wk_return) ELSE WkMove(wk_except)
    /\ UNCHANGED <<cfgVars, rxVars, getVars, fnVars, qVars, wstate, job, wtext, finished>>

\* faulty variant: a failure to send the apology leaves process_message
WkSendApologyRaises ==
    /\ wpc = "apology"
    /\ \E ok \in BOOLEAN :
        /\ wcalls' = Append(wcalls, Call("send_text_message", job.sender, 0, Apology, ok))
        /\ wresult' = IF ok THEN "returned" ELSE "raised"
    /\ wpc' = "return"
    /\ UNCHANGED <<cfgVars, rxVars, getVars, fnVars, qVars, wstate, job, wtext, werr, finished, replies>>

\* faulty variant: the apology carries the text of the caught error
WkSendApologyWithError ==
    /\ wpc = "apology"
    /\ \E ok \in BOOLEAN :
        wcalls' = Append(wcalls, Call("send_text_message", job.sender, 0,
                                      "Error processing message: adapter error", ok))
    /\ WkMove(wk_return)
    /\ UNCHANGED <<cfgVars, rxVars, getVars, fnVars, qVars, wstate, job, wtext, finished, replies>>

\* lines 53-60: the apology is sent; "except Exception: pass" on failure;
\* process_message then returns None
WkSendApology ==
    /\ wpc = "apology"
    /\ \E ok \in BOOLEAN :
        wcalls' = Append(wcalls, Call("send_text_message", job.sender, 0, Apology, ok))
    /\ WkMove(wk_return)
    /\ UNCHANGED <<cfgVars, rxVars, getVars, fnVars, qVars, wstate, job, wtext, finished, replies>>

\* the awaits of process_message and its handlers
AwaitPositions == {"interim", "download", "infer", "detect", "reply", "apology"}

\* the adapter call process_message is waiting for at pc
awaited(pc) ==
    LET handler == handler_of(job.message_type) IN
    IF      pc = "interim"  THEN
        Call("send_text_message", job.sender, 0, notice(handler), FALSE)
    ELSE IF pc = "download" THEN
        Call("download_media", "", 0, job.content_data, FALSE)
    ELSE IF pc = "infer"    THEN
        Call(wk_process_media(handler), "", 0, "", FALSE)
    ELSE IF pc = "detect"   THEN
        WithSession(Call("detect_intent", job.sender, 0, wtext, FALSE))
    ELSE IF pc = "reply"    THEN
        Call("send_text_message", job.sender, 0, wtext, FALSE)
    ELSE
        Call("send_text_message", job.sender, 0, Apology, FALSE)

\* job_timeout = 300: the queue abandons an attempt that is still waiting
\* for an adapter call. The cancellation is no Exception, so the except
\* clause of process_message does not run; the call that was in flight
\* neither returns nor raises, but a reply that was being sent may have
\* reached the user
WkTimeout ==
    /\ wpc \in AwaitPositions
    /\ wcalls' = Append(wcalls, Cancelled(awaited(wpc)))
    /\ wpc' = "return"
    /\ wresult' = "timeout"
    /\ \E landed \in BOOLEAN :
        replies' = IF wpc = "reply" /\ landed
                   THEN [replies EXCEPT ![job.message_id] = @ + 1]
                   ELSE replies
    /\ UNCHANGED <<cfgVars, rxVars, getVars, fnVars, qVars, wstate, job, wtext, werr, finished>>

\* what the queue does with a job whose attempt ended: a clean return
\* completes it; a raise requeues it while tries remain, fails it after
queue_outcome(result, tries) ==
    IF      result = "returned" THEN "complete"
    ELSE IF tries < max_tries   THEN "retry"
    ELSE                             "failed"

\* the attempt is over: the queue settles the job
FinishJob ==
    /\ wpc = "return"
    /\ LET fate == queue_outcome(wresult, job.tries) IN
       IF fate = "retry"
       THEN /\ queue' = queue \cup {job}
            /\ finished' = finished
       ELSE /\ queue' = queue
            /\ finished' = finished \cup
                 {[message_id |-> job.message_id, tries |-> job.tries,
                   raised |-> werr, fate |-> fate]}
    /\ wpc' = "idle"
    /\ UNCHANGED <<cfgVars, rxVars, getVars, fnVars, _pool, nenq, unclosed, wstate, job, wtext, werr, wresult, wcalls, replies>>

----------------------------------------------------------------------------
(* The pure functions of the program, each applied once to a drawn input *)

NoArg == [fn |-> "none"]

\* message.get_message_type()
ApplyGetMessageType ==
    /\ arg = NoArg
    /\ \E m \in TestMessages :
        /\ arg' = [fn |-> "get_message_type", m |-> m]
        /\ out' = get_message_type(m)
    /\ UNCHANGED <<cfgVars, rxVars, getVars, qVars, wkVars, _client, constructed>>

\* message.get_content()
ApplyGetContent ==
    /\ arg = NoArg
    /\ \E m \in TestMessages :
        /\ arg' = [fn |-> "get_content", m |-> m]
        /\ out' = get_content(m)
    /\ UNCHANGED <<cfgVars, rxVars, getVars, qVars, wkVars, _client, constructed>>

\* payload.get_messages()
ApplyGetMessages ==
    /\ arg = NoArg
    /\ \E shape \in TestShapes :
        /\ arg' = [fn |-> "get_messages", payload |-> Payload(shape)]
        /\ out' = get_messages(Payload(shape))
    /\ UNCHANGED <<cfgVars, rxVars, getVars, qVars, wkVars, _client, constructed>>

\* the adapter clients that have a getter
ClientNames == {"whatsapp", "ca", "gemini"}

\* faulty variant: the getter constructs an instance at every call
get_singleton_always_new(held, c) ==
    IF Configured(c)
    THEN [ok |-> TRUE,  ret |-> constructed[c] + 1, made |-> TRUE]
    ELSE [ok |-> FALSE, ret |-> 0, made |-> FALSE]

\* get_whatsapp_client / get_ca_client / get_gemini_client with held the
\* value of the module-level variable: "if _x is None: _x = X()" and
\* "return _x"; the constructor raises when its configuration is missing,
\* before the assignment. ret names the instance returned, made says
\* whether a new one was constructed
get_singleton(held, c) ==
    IF      held # 0      THEN [ok |-> TRUE,  ret |-> held, made |-> FALSE]
    ELSE IF Configured(c) THEN [ok |-> TRUE,  ret |-> constructed[c] + 1, made |-> TRUE]
    ELSE                       [ok |-> FALSE, ret |-> 0, made |-> FALSE]

\* a job or a request calls a getter; the getters have no await, so the
\* calls of concurrent jobs happen one after the other
CallGetClient ==
    /\ arg = NoArg \/ (arg.fn = "get_client" /\ arg.n < MaxCalls)
    /\ \E c \in ClientNames :
        LET r == get_singleton(_client[c], c) IN
        /\ arg' = [fn |-> "get_client", c |-> c,
                   n |-> IF arg = NoArg THEN 1 ELSE arg.n + 1]
        /\ out' = [ok |-> r.ok, ret |-> r.ret]
        /\ _client' = IF r.ok THEN [_client EXCEPT ![c] = r.ret] ELSE _client
        /\ constructed' = IF r.made THEN [constructed EXCEPT ![c] = @ + 1]
                                    ELSE constructed
    /\ UNCHANGED <<cfgVars, rxVars, getVars, qVars, wkVars>>

----------------------------------------------------------------------------
(* Specifications *)

Init ==
    /\ config \in Configs
    /\ clients = [receiver |-> {}, worker |-> {}]
    /\ req = NoReq
    /\ rpc = "idle"
    /\ ridx = 0
    /\ rmsg = NoMsg
    /\ rtext = ""
    /\ rcalls = <<>>
    /\ response = 0
    /\ _pool = None
    /\ queue = {}
    /\ nenq = 0
    /\ wstate = "init"
    /\ wpc = "idle"
    /\ job = NoJob
    /\ wtext = ""
    /\ werr = FALSE
    /\ wresult = "none"
    /\ wcalls = <<>>
    /\ finished = {}
    /\ greq = NoQuery
    /\ gresp = [status |-> 0, body |-> ""]
    /\ arg = NoArg
    /\ out = ""
    /\ replies = [id \in 1..MaxJobs |-> 0]
    /\ unclosed = FALSE
    /\ _client = [c \in ClientNames |-> 0]
    /\ constructed = [c \in ClientNames |-> 0]

\* the receiver
Next ==
    \/ handle_post_webhook
    \/ RouteMessage
    \/ RxMarkRead
    \/ RxDetectIntent
    \/ RxDownloadMedia
    \/ RxProcessMedia
    \/ RxSendReply
    \/ RxSendApology
    \/ RxRespond
    \/ RxReturn

Spec == Init /\ [][Next]_vars

\* the producer and the worker
NextWorker ==
    \/ init_pool
    \/ close_pool
    \/ enqueue_message_task
    \/ startup
    \/ StartJob
    \/ WkSendNotice
    \/ WkDownloadMedia
    \/ WkProcessMedia
    \/ WkDetectIntent
    \/ WkSendReply
    \/ WkSendApology
    \/ WkTimeout
    \/ FinishJob

\* the worker and the producer read neither the webhook secret nor the
\* verification token: one value of each
InitWorker ==
    /\ Init
    /\ config.APP_SECRET = PlatformSecret
    /\ config.WEBHOOK_VERIFICATION_TOKEN = VerificationToken

SpecWorker == InitWorker /\ [][NextWorker]_vars

\* the steps of the queue and of process_message: a job is handed over, an
\* awaited adapter call returns or fails, an attempt is settled
WorkerStep ==
    \/ StartJob
    \/ WkSendNotice
    \/ WkDownloadMedia
    \/ WkProcessMedia
    \/ WkDetectIntent
    \/ WkSendReply
    \/ WkSendApology
    \/ FinishJob

\* the worker when every adapter call it waits for returns or fails, the
\* queue hands over the jobs that wait and settles the attempts that ended
SpecWorkerFair == SpecWorker /\ WF_vars(WorkerStep)

\* the receiver serving GET /webhook
NextGet == handle_get_webhook

SpecGet == Init /\ [][NextGet]_vars

\* the pure functions
NextPure ==
    \/ ApplyGetMessageType
    \/ ApplyGetContent
    \/ ApplyGetMessages

SpecPure == Init /\ [][NextPure]_vars

\* the client getters, called in any order
NextClients == CallGetClient

SpecClients == Init /\ [][NextClients]_vars

----------------------------------------------------------------------------
(* Properties *)

\* the request's header is the keyed hash of its body under the configured
\* secret, bare or after the "sha256=" prefix
SigMatches ==
    /\ req.has_signature
    /\ config.APP_SECRET \notin {None, ""}
    /\ req.header \in { hexdigest(config.APP_SECRET, req.body),
                        <<PrefixTok>> \o hexdigest(config.APP_SECRET, req.body) }

\* the number of messages the request being served carries
NumMessages == Len(get_messages(req.body.payload))

HeavyOps ==
    {"detect_intent", "download_media", "process_image", "process_document",
     "process_audio"}

\* positions of the calls of a log that satisfy a condition
ApologyCalls(calls) ==
    { k \in 1..Len(calls) :
        calls[k].op = "send_text_message" /\ calls[k].text = Apology }

NoticeCalls(calls) ==
    { k \in 1..Len(calls) :
        /\ calls[k].op = "send_text_message"
        /\ calls[k].text \in {"Reading image...", "Reading document...",
                              "Listening to audio..."} }

MarkCalls(calls, id) ==
    { k \in 1..Len(calls) :
        calls[k].op = "mark_message_as_read" /\ calls[k].id = id }

OpsOf(calls) == { calls[k].op : k \in 1..Len(calls) }

\* C1: a POST /webhook whose signature header does not verify against the
\* body is answered 403 (422 when the header is missing altogether); no
\* message of it is handled, no adapter is called and no job is enqueued.
C1_InvalidSignatureRejected ==
    (rpc # "idle" /\ ~SigMatches) =>
        /\ rpc = "done"
        /\ response = IF req.has_signature THEN 403 ELSE 422
        /\ ridx = 0
        /\ rmsg = NoMsg
        /\ rcalls = <<>>
        /\ queue = {}
        /\ nenq = 0

\* C2: a validly signed POST /webhook with n >= 1 messages has enqueued
\* exactly n jobs, one per message, when its 200 is produced.
C2_OneJobPerMessage ==
    (rpc = "done" /\ response = 200 /\ NumMessages >= 1) =>
        /\ nenq = NumMessages
        /\ Cardinality(queue) = NumMessages

\* C3: while serving POST /webhook the receiver calls neither the intent
\* detection, nor the media download, nor the media understanding.
C3_NoHeavyCallOnRequestPath ==
    \A k \in 1..Len(rcalls) : rcalls[k].op \notin HeavyOps

\* C4: an attempt whose flow raised ends with process_message raising to
\* the queue, not with a clean return.
C4_FlowErrorReraised ==
    (wpc = "return" /\ werr) => wresult = "raised"

\* C5: a job whose attempt failed while attempts remain is re-attempted:
\* the queue is done with a failing job only once its max_tries attempts
\* are used up.
C5_FailedJobRetried ==
    \A f \in finished : f.raised => f.tries = max_tries

\* C6: an attempt whose flow raised makes exactly one attempt to send the
\* apology, to the job's sender; an attempt whose flow did not raise makes
\* none.
C6_OneApologyPerFailedAttempt ==
    /\ Cardinality(ApologyCalls(wcalls)) <= 1
    /\ \A k \in ApologyCalls(wcalls) : werr /\ wcalls[k].to = job.sender
    /\ (werr /\ wpc \in {"return", "idle"}) =>
           Cardinality(ApologyCalls(wcalls)) = 1

\* an adapter call of the flow failed and the attempt ended after one
\* apology
C6_Witness ==
    /\ wpc = "return"
    /\ werr
    /\ Len(wcalls) >= 2
    /\ ~wcalls[Len(wcalls) - 1].ok
    /\ Cardinality(ApologyCalls(wcalls)) = 1

\* C7: a failure to send the apology is swallowed: process_message still
\* returns cleanly, the failed send is the last call of the attempt and
\* the only apology, and the queue does not run the job again.
C7_ApologyFailureSwallowed ==
    \A k \in ApologyCalls(wcalls) :
        (~wcalls[k].ok /\ ~wcalls[k].cancelled) =>
            /\ k = Len(wcalls)
            /\ Cardinality(ApologyCalls(wcalls)) = 1
            /\ wpc \in {"return", "idle"}
            /\ wresult = "returned"
            /\ \A j \in queue : j.message_id # job.message_id

\* the apology could not be sent and the queue has settled the job
C7_Witness ==
    /\ wpc = "idle"
    /\ \E k \in ApologyCalls(wcalls) : ~wcalls[k].ok /\ ~wcalls[k].cancelled
    /\ \E f \in finished : f.message_id = job.message_id

\* C8: in a media flow a failed interim notice is swallowed: the flow does
\* not raise, no apology is sent, and the attempt ends only after the
\* download, the media inference and the intent detection were made.
C8_NoticeFailureSwallowed ==
    \A k \in NoticeCalls(wcalls) :
        (~wcalls[k].ok /\ ~wcalls[k].cancelled) =>
            /\ ~werr
            /\ wpc # "apology"
            /\ ApologyCalls(wcalls) = {}
            /\ (wpc \in {"return", "idle"} =>
                    {"download_media", "detect_intent"} \subseteq OpsOf(wcalls))

\* the step the handler of rmsg takes after mark-as-read returned
AfterMark ==
    IF get_message_type(rmsg) = "text"
    THEN IF "ca" \in clients.receiver \/ config.CA THEN "detect" ELSE "apology"
    ELSE "download"

FailedMark(calls) ==
    /\ Len(calls) >= 1
    /\ calls[Len(calls)].op = "mark_message_as_read"
    /\ ~calls[Len(calls)].ok

\* C9: a failed mark-as-read does not abort the request: the handler goes
\* on with the step that follows a successful one, no response is produced
\* by it, and the request of a message whose mark-as-read failed is never
\* answered with an error.
C9_MarkFailureDoesNotAbort ==
    /\ []((\E k \in MarkCalls(rcalls, rmsg.id) : ~rcalls[k].ok) => response \in {0, 200})
    /\ [][(rpc = "mark" /\ FailedMark(rcalls')) =>
             (rpc' = AfterMark /\ response' = 0 /\ ridx' = ridx)]_vars

\* mark-as-read failed, the reply was sent all the same and the request
\* was answered 200
C9_Witness ==
    /\ rpc = "done"
    /\ response = 200
    /\ Len(rcalls) >= 2
    /\ ~rcalls[1].ok /\ rcalls[1].op = "mark_message_as_read"
    /\ rcalls[Len(rcalls)].op = "send_text_message"
    /\ rcalls[Len(rcalls)].ok
    /\ rcalls[Len(rcalls)].text \in {Fallback, "agent reply"}

\* C10: for every message of a validly signed, well-formed webhook the
\* receiver has requested mark-as-read for its id exactly once when its
\* handler is over.
C10_MarkReadOncePerMessage ==
    (rpc \in {"loop", "done"} /\ ridx >= 1 /\ response \in {0, 200}) =>
        Cardinality(MarkCalls(rcalls, rmsg.id)) = 1

----------------------------------------------------------------------------
\* no change of the payload carries a message: its `messages` is absent or
\* an empty list (an empty entry list and an entry without changes included)
NoMessages(payload) ==
    \A e \in 1..Len(payload) : \A c \in 1..Len(payload[e]) :
        ~payload[e][c].has_messages \/ payload[e][c].messages = <<>>

\* C11: a validly signed, well-formed webhook whose entries and changes
\* carry no message at all is answered 200 at once: no message is routed,
\* no adapter is called and no job is enqueued
C11_EmptyPayloadAcknowledged ==
    (rpc # "idle" /\ SigMatches /\ model_validate_json(req.body)
                  /\ NoMessages(req.body.payload)) =>
        /\ rpc = "done"
        /\ response = 200
        /\ rmsg = NoMsg
        /\ rcalls = <<>>
        /\ nenq = 0
        /\ queue = {}

\* a webhook made only of status updates, in two entries, was answered 200
C11_Witness ==
    /\ rpc = "done"
    /\ response = 200
    /\ SigMatches
    /\ Len(req.body.payload) = 2
    /\ \A e \in 1..2 : /\ Len(req.body.payload[e]) = 1
                        /\ ~req.body.payload[e][1].has_messages

----------------------------------------------------------------------------
\* C12: the signature is checked before the body is parsed: a request whose
\* signature does not match is answered 403 whether or not its body passes
\* schema validation, and a request with a matching signature whose body
\* fails schema validation is answered 400 with no message handled and no
\* job enqueued
C12_SignatureBeforeParse ==
    /\ (rpc # "idle" /\ req.has_signature /\ ~SigMatches) =>
            (rpc = "done" /\ response = 403)
    /\ (rpc # "idle" /\ SigMatches /\ req.body.defect # "none") =>
            /\ rpc = "done"
            /\ response = 400
            /\ rmsg = NoMsg
            /\ rcalls = <<>>
            /\ nenq = 0
            /\ queue = {}

----------------------------------------------------------------------------
\* C13: a webhook whose jobs cannot be enqueued is not acknowledged: while
\* the receiver's pool is not initialised (get_pool would raise), a webhook
\* that carries messages is never answered 200
C13_EnqueueFailureNotAcknowledged ==
    (rpc = "done" /\ SigMatches /\ NumMessages >= 1 /\ _pool = None) =>
        response # 200

----------------------------------------------------------------------------
\* C14: a failure while one message is handled does not keep the later
\* messages of the same webhook from being handled: when the request of an
\* accepted webhook ends, every message was handled, or the request failed
\* on its last message
C14_FailureIsolatedPerMessage ==
    (rpc = "done" /\ SigMatches /\ model_validate_json(req.body)) =>
        ridx + (IF response = 500 THEN 1 ELSE 0) = NumMessages

----------------------------------------------------------------------------
\* the type strings process_message has a handler for
HandledTypes ==
    {"text", "image", "document", "audio", "voice", "video", "location",
     "contacts"}

\* the queue's records of the job in flight
Settled == { f \in finished : f.message_id = job.message_id }

\* C15: a job whose type has no handler takes the unsupported flow whatever
\* its content: no adapter is called, nothing is sent to the sender,
\* process_message returns cleanly and the queue completes the job after
\* its first attempt
C15_UnsupportedJobAcknowledged ==
    (job # NoJob /\ job.message_type \notin HandledTypes) =>
        /\ wpc \in {"return", "idle"}
        /\ wcalls = <<>>
        /\ ~werr
        /\ wresult = "returned"
        /\ job.tries = 1
        /\ wpc = "idle" =>
              Settled = {[message_id |-> job.message_id, tries |-> 1,
                          raised |-> FALSE, fate |-> "complete"]}

\* a job of a type outside the enum, carrying a media record, was completed
C15_Witness ==
    /\ job.message_type = "reaction"
    /\ job.content_data = "media"
    /\ wpc = "idle"
    /\ wcalls = <<>>
    /\ \E f \in Settled : f.fate = "complete"

----------------------------------------------------------------------------
\* C16: a job of type location, contacts or video, whatever its content,
\* has nothing sent to its sender and is handled without an error
C16_StubJobsSendNothing ==
    (job # NoJob /\ job.message_type \in {"location", "contacts", "video"}) =>
        /\ \A k \in 1..Len(wcalls) : wcalls[k].op # "send_text_message"
        /\ ~werr

----------------------------------------------------------------------------
\* positions of the intent calls of a log that returned an empty response
EmptyIntentCalls(calls) ==
    { k \in 1..Len(calls) :
        calls[k].op = "detect_intent" /\ calls[k].ok /\ calls[k].ret = "" }

\* C17: in the text, image, document, audio and voice flows of the worker,
\* when the intent adapter returns an empty response text the reply that is
\* sent is the fixed fallback string, and no flow ever sends an empty text
C17_EmptyResponseGetsFallback ==
    /\ \A k \in 1..Len(wcalls) :
            wcalls[k].op = "send_text_message" => wcalls[k].text # ""
    /\ \A k \in EmptyIntentCalls(wcalls) :
            /\ (k = Len(wcalls)) => (wpc = "reply" /\ wtext = Fallback)
            /\ (k < Len(wcalls)) =>
                  /\ wcalls[k + 1].op = "send_text_message"
                  /\ wcalls[k + 1].to = job.sender
                  /\ wcalls[k + 1].text = Fallback

\* a voice job: the summary was fed to the intent adapter, which returned
\* an empty text, and the fallback was sent
C17_Witness ==
    /\ job.message_type = "voice"
    /\ \E k \in EmptyIntentCalls(wcalls) :
            /\ k < Len(wcalls)
            /\ wcalls[k + 1].text = Fallback
            /\ wcalls[k + 1].ok

----------------------------------------------------------------------------
\* the query asks to subscribe and carries the configured token
Verified ==
    /\ greq.mode = "subscribe"
    /\ config.WEBHOOK_VERIFICATION_TOKEN # None
    /\ greq.token = config.WEBHOOK_VERIFICATION_TOKEN

\* C18: GET /webhook answers 200 with the challenge verbatim exactly when
\* hub.mode is "subscribe" and hub.verify_token is the configured token;
\* every other mode and token gets 403 and the challenge is not echoed
C18_ChallengeEchoedIffVerified ==
    (greq # NoQuery /\ greq.complete) =>
        /\ Verified => (gresp.status = 200 /\ gresp.body = greq.challenge)
        /\ ~Verified => (gresp.status = 403 /\ gresp.body # greq.challenge)

\* the right token with a mode other than "subscribe" was refused
C18_Witness ==
    /\ greq.complete
    /\ greq.mode = "unsubscribe"
    /\ greq.token = config.WEBHOOK_VERIFICATION_TOKEN
    /\ gresp.status = 403

----------------------------------------------------------------------------
\* the headers that match body b under the configured secret: the keyed
\* hash of b in hex, bare or after the "sha256=" prefix
Matching(b) ==
    { hexdigest(config.APP_SECRET, b),
      <<PrefixTok>> \o hexdigest(config.APP_SECRET, b) }

\* the headers one bit away from a matching pair: they match a body that
\* differs from b in one bit, or are a matching header with one bit of
\* its digest inverted
OneBitOff(b) ==
    Matching(flip_body(b))
    \cup { flip_digest(hexdigest(config.APP_SECRET, b), bit) : bit \in Bits }
    \cup { <<PrefixTok>> \o flip_digest(hexdigest(config.APP_SECRET, b), bit) :
             bit \in Bits }

\* C19: with a configured secret, verify returns true for the hex keyed
\* hash of the body, with or without the "sha256=" prefix, and returns
\* false when the body or the hex digest is one bit away from such a pair
C19_VerifyExactOnBitFlips ==
    (rpc # "idle" /\ req.has_signature /\ config.APP_SECRET \notin {None, ""}) =>
        /\ req.header \in Matching(req.body) =>
              /\ ~verify_raises(req.body, req.header)
              /\ verify_webhook_signature(req.body, req.header)
              /\ response \notin {403, 500}
        /\ req.header \in OneBitOff(req.body) =>
              /\ ~verify_raises(req.body, req.header)
              /\ ~verify_webhook_signature(req.body, req.header)
              /\ response = 403

----------------------------------------------------------------------------
\* C20: while the shared secret is unset or empty, verify returns false
\* for every body and every header without raising, and every POST
\* /webhook that carries the header is answered 403 unhandled
C20_UnconfiguredSecretRejectsAll ==
    (rpc # "idle" /\ req.has_signature /\ config.APP_SECRET \in {None, ""}) =>
        /\ ~verify_raises(req.body, req.header)
        /\ ~verify_webhook_signature(req.body, req.header)
        /\ rpc = "done"
        /\ response = 403
        /\ rmsg = NoMsg
        /\ rcalls = <<>>

\* with an empty secret, a header computed with the empty key over a
\* well-formed body was answered 403
C20_Witness ==
    /\ config.APP_SECRET = ""
    /\ rpc = "done"
    /\ response = 403
    /\ model_validate_json(req.body)
    /\ req.header = <<PrefixTok>> \o hexdigest("", req.body)

----------------------------------------------------------------------------
\* the eleven type strings the platform documents
Recognised ==
    {"text", "image", "document", "audio", "video", "voice", "sticker",
     "location", "contacts", "interactive", "button"}

\* C21: get_message_type is total: a recognised type string gives the tag
\* of that name, every other string gives unknown
C21_ClassifyTotal ==
    (arg.fn = "get_message_type") =>
        out = (IF arg.m.type \in Recognised THEN arg.m.type ELSE "unknown")

\* a type string that differs from a recognised one only in case was
\* classified unknown
C21_Witness ==
    /\ arg.fn = "get_message_type"
    /\ arg.m.type = "TEXT"
    /\ out = "unknown"

----------------------------------------------------------------------------
\* the tag a type string stands for
TagOf(type) == IF type \in Recognised THEN type ELSE "unknown"

\* the value held by slot s of message m
SlotValue(m, s) == IF s = "text" THEN m.body ELSE s

\* C22: get_content returns a value, not None, exactly when the slot named
\* by the message's tag is present in the payload; a contacts slot holding
\* an empty list and a text slot with an empty body count as present
C22_ContentIffSlotPopulated ==
    (arg.fn = "get_content") =>
        ((out # None) <=> (TagOf(arg.m.type) \in arg.m.slots))

----------------------------------------------------------------------------
\* C23: get_content never returns the value of a slot other than the one
\* named by the message's tag: it returns that slot's value or None, also
\* when other slots are populated and that one is not
C23_OnlyMatchingSlotReturned ==
    (arg.fn = "get_content") =>
        \/ out = None
        \/ /\ TagOf(arg.m.type) \in arg.m.slots
           /\ out = SlotValue(arg.m, TagOf(arg.m.type))

\* an image message that carries a text and a video slot but no image slot
\* has no content
C23_Witness ==
    /\ arg.fn = "get_content"
    /\ arg.m.type = "image"
    /\ arg.m.slots = {"text", "video"}
    /\ out = None

----------------------------------------------------------------------------
\* the characters a session id drops from the user id
Stripped == {"+", "-", " "}

Kept(c) == c \notin Stripped

\* the intent calls of a log
IntentCalls(calls) == { k \in 1..Len(calls) : calls[k].op = "detect_intent" }

\* C24: the session of every intent call the worker makes is the prefix,
\* "-", and the job's sender without its '+', '-' and space characters: a
\* function of the sender alone, the same for every message type; stripping
\* a stripped user id changes nothing
C24_SessionIdFromSender ==
    \A k \in IntentCalls(wcalls) :
        LET clean == SelectSeq(chars(job.sender), Kept) IN
        /\ wcalls[k].to = job.sender
        /\ wcalls[k].session = session_prefix \o <<"-">> \o clean
        /\ _build_session_id(session_prefix, clean) = wcalls[k].session

\* a voice job of a sender written with '+', '-' and a space reached the
\* intent adapter
C24_Witness ==
    /\ job.sender = "+1 555-0002"
    /\ job.message_type = "voice"
    /\ IntentCalls(wcalls) # {}

\* the attempt budget the specification states
AttemptBudget == 3

\* C25: attempts and duplicate replies are bounded: no job is handed to the
\* worker more than three times, a job still waiting has an attempt left,
\* and the final replies that reached the sender of a job, timed-out and
\* redelivered attempts included, are at most one per attempt, so at most
\* three.
C25_AttemptsAndRepliesBounded ==
    /\ job.tries <= AttemptBudget
    /\ \A j \in queue : j.tries < AttemptBudget
    /\ \A f \in finished : f.tries <= AttemptBudget
    /\ \A id \in DOMAIN replies : replies[id] <= AttemptBudget
    /\ job # NoJob => replies[job.message_id] <= job.tries

\* the third attempt of a job timed out while its reply was being sent,
\* after the replies of the first two attempts had reached the sender too
C25_Witness ==
    /\ job.tries = AttemptBudget
    /\ wresult = "timeout"
    /\ replies[job.message_id] = AttemptBudget

----------------------------------------------------------------------------
\* the interim notices of the media handlers
InterimNotices ==
    {"Reading image...", "Reading document...", "Listening to audio..."}

\* C26: every text the worker sends to a user is an interim notice, the
\* fallback string, the apology string, or the response text the intent
\* adapter returned to the call just before the send; nothing else, so no
\* error text and no other internal detail, is ever sent.
C26_OnlyFixedOrAgentTexts ==
    \A k \in 1..Len(wcalls) :
        wcalls[k].op = "send_text_message" =>
            \/ wcalls[k].text \in InterimNotices
            \/ wcalls[k].text \in {Fallback, Apology}
            \/ /\ k > 1
               /\ wcalls[k - 1].op = "detect_intent"
               /\ wcalls[k - 1].ok
               /\ wcalls[k - 1].ret # ""
               /\ wcalls[k].text = wcalls[k - 1].ret

\* a document job whose download failed: the notice and then the apology
\* were sent, and the attempt is over
C26_Witness ==
    /\ wpc = "return"
    /\ werr
    /\ Len(wcalls) = 3
    /\ wcalls[1].text = "Reading document..." /\ wcalls[1].ok
    /\ wcalls[2].op = "download_media" /\ ~wcalls[2].ok
    /\ wcalls[3].text = Apology /\ wcalls[3].ok

----------------------------------------------------------------------------
\* the messages of a payload: those of the changes that carry a list
AllMessages(payload) ==
    UNION { UNION { { payload[e][c].messages[k] :
                        k \in 1..Len(payload[e][c].messages) } :
                    c \in { c \in 1..Len(payload[e]) : payload[e][c].has_messages } } :
            e \in 1..Len(payload) }

\* document order of two messages, each named by its place <<e, c, k>>
Before(a, b) ==
    \/ a[1] < b[1]
    \/ a[1] = b[1] /\ a[2] < b[2]
    \/ a[1] = b[1] /\ a[2] = b[2] /\ a[3] < b[3]

\* C27: get_messages returns every message of every change of every entry
\* and nothing else, each exactly once, in document order (entries, then
\* changes, then messages); changes whose messages list is absent or empty
\* contribute nothing.
C27_MessagesInDocumentOrder ==
    (arg.fn = "get_messages") =>
        /\ { out[i] : i \in 1..Len(out) } = AllMessages(arg.payload)
        /\ Len(out) = Cardinality(AllMessages(arg.payload))
        /\ \A i, j \in 1..Len(out) : i < j => Before(out[i], out[j])

\* two entries: a status update and two messages, then an empty list and
\* one message; the three messages come out in document order
C27_Witness ==
    /\ arg.fn = "get_messages"
    /\ arg.payload = Payload(<< <<0, 3>>, <<1, 2>> >>)
    /\ out = << <<1, 2, 1>>, <<1, 2, 2>>, <<2, 2, 1>> >>

----------------------------------------------------------------------------
\* the message types of the media flows and the media-understanding call
\* each of them makes
MediaCall ==
    [image |-> "process_image", document |-> "process_document",
     audio |-> "process_audio", voice |-> "process_audio"]

\* the calls of a media flow, in the order the claim states
MediaSteps(t) ==
    <<"send_text_message", "download_media", MediaCall[t], "detect_intent",
      "send_text_message">>

\* C28: in a media job the calls of an attempt are the interim notice, the
\* download, the media inference, the intent detection and the final reply,
\* in this order and each at most once; a call is made only after the one
\* before it has succeeded, and after a call that failed or was cut off
\* nothing follows but the apology.
C28_MediaStepsInOrder ==
    (job # NoJob /\ job.message_type \in DOMAIN MediaCall) =>
        /\ \A k \in 1..Len(wcalls) :
              k \in ApologyCalls(wcalls) \/
                /\ k <= 5
                /\ wcalls[k].op = MediaSteps(job.message_type)[k]
                /\ (k = 1) = (wcalls[k].text \in InterimNotices)
                /\ k > 1 => wcalls[k - 1].ok
        /\ \A k \in 1..Len(wcalls) :
              ~wcalls[k].ok =>
                \/ k = Len(wcalls)
                \/ k + 1 = Len(wcalls) /\ k + 1 \in ApologyCalls(wcalls)

\* a voice job ran through all five steps
C28_Witness ==
    /\ job.message_type = "voice"
    /\ wpc = "return"
    /\ Len(wcalls) = 5
    /\ \A k \in 1..5 : wcalls[k].ok
    /\ wcalls[3].op = "process_audio"

----------------------------------------------------------------------------
\* the texts that carry the media summary to the user as it is
SummaryTexts ==
    {Summary, "Image Analysis: media summary", "Document Summary: media summary",
     "Audio Transcription: media summary"}

\* in a log of calls the media summary goes to the intent adapter and to
\* nobody else: the call after a successful media-understanding call is the
\* intent detection on the summary, and no text sent carries the summary
SummaryFedToIntent(calls) ==
    /\ \A k \in 1..Len(calls) :
          calls[k].op = "send_text_message" => calls[k].text \notin SummaryTexts
    /\ \A k \in 1..(Len(calls) - 1) :
          (calls[k].op \in {"process_image", "process_document", "process_audio"}
             /\ calls[k].ok) =>
                /\ calls[k + 1].op = "detect_intent"
                /\ calls[k + 1].text = Summary

\* C29: in a media flow, of the receiver or of the worker, the text produced
\* by media understanding is never sent to the user directly: it is passed
\* as user text to intent detection, and the final reply is the intent
\* result or the fallback.
C29_SummaryNeverSentDirectly ==
    /\ SummaryFedToIntent(rcalls)
    /\ SummaryFedToIntent(wcalls)

----------------------------------------------------------------------------
\* the adapter calls of the flow a message type is dispatched to: the text
\* flow, a media flow, or none (the stubs and the unsupported types)
FlowSteps(t) ==
    IF      t = "text"              THEN <<"detect_intent", "send_text_message">>
    ELSE IF t \in DOMAIN MediaCall  THEN MediaSteps(t)
    ELSE <<>>

\* the interim notice of each media type: audio and voice share theirs
NoticeOf ==
    [image |-> "Reading image...", document |-> "Reading document...",
     audio |-> "Listening to audio...", voice |-> "Listening to audio..."]

\* the calls of the attempt in hand, the apology aside, are the first calls
\* of the one flow of the job's type
InOneFlow ==
    job # NoJob =>
        \A k \in 1..Len(wcalls) :
            \/ k = Len(wcalls) /\ k \in ApologyCalls(wcalls)
            \/ /\ k <= Len(FlowSteps(job.message_type))
               /\ wcalls[k].op = FlowSteps(job.message_type)[k]
               /\ (k = 1 /\ job.message_type \in DOMAIN NoticeOf) =>
                      wcalls[k].text = NoticeOf[job.message_type]

\* the queue has acknowledged or failed job id
Done(id) ==
    \E f \in finished : f.message_id = id /\ f.fate \in {"complete", "failed"}

\* C30: every dequeued job goes into exactly one flow, chosen by its
\* message_type alone (text, media with audio and voice alike, a stub, or
\* unsupported), whatever its content; and when every adapter call returns
\* or fails, a job that was dequeued is in the end acknowledged or failed
\* by the queue.
C30_OneFlowThenSettled ==
    /\ []InOneFlow
    /\ \A id \in 1..MaxJobs :
          (job.message_id = id /\ wpc # "idle") ~> Done(id)

\* an audio job went through its flow and was acknowledged
C30_Witness ==
    /\ job.message_type = "audio"
    /\ wpc = "idle"
    /\ Len(wcalls) = 5
    /\ wcalls[1].text = "Listening to audio..."
    /\ Done(job.message_id)

----------------------------------------------------------------------------
\* positions of the final replies of a log: the sends that follow an intent
\* detection that returned
ReplyCalls(calls) ==
    { k \in 2..Len(calls) :
        /\ calls[k].op = "send_text_message"
        /\ calls[k - 1].op = "detect_intent"
        /\ calls[k - 1].ok }

\* C31: within one attempt the final reply and the apology exclude each
\* other: after a final reply that was sent successfully the attempt ends
\* cleanly with no further call, and an attempt that sends the apology has
\* no successful final reply and has added no reply to those its sender
\* received in earlier attempts.
C31_ReplyExcludesApology ==
    /\ \A k \in ReplyCalls(wcalls) :
          wcalls[k].ok =>
              /\ k = Len(wcalls)
              /\ ApologyCalls(wcalls) = {}
              /\ ~werr
              /\ wpc \in {"return", "idle"}
              /\ wresult = "returned"
    /\ ApologyCalls(wcalls) # {} =>
          /\ \A k \in ReplyCalls(wcalls) : ~wcalls[k].ok
          /\ replies[job.message_id] < job.tries

\* a text job: the intent was detected, the reply could not be sent, and
\* the apology was sent instead
C31_Witness ==
    /\ job.message_type = "text"
    /\ Len(wcalls) = 3
    /\ wcalls[1].op = "detect_intent" /\ wcalls[1].ok
    /\ 2 \in ReplyCalls(wcalls) /\ ~wcalls[2].ok
    /\ 3 \in ApologyCalls(wcalls) /\ wcalls[3].ok

----------------------------------------------------------------------------
\* the configuration the constructor of each client asks for
HasConfig ==
    [whatsapp |-> config.ACCESS_TOKEN, ca |-> config.CA,
     gemini |-> config.GEMINI_API_KEY]

\* C32: each adapter client is a lazily constructed process-wide singleton:
\* whatever getters were called, at most one instance of each client was
\* constructed and none for a client nobody asked for or that lacks its
\* configuration; a call that succeeds returns that one instance, which
\* the module then holds; a call whose construction fails raises and
\* leaves the singleton unset.
C32_ClientsAreSingletons ==
    (arg.fn = "get_client") =>
        /\ \A c \in ClientNames :
              /\ constructed[c] <= 1
              /\ _client[c] = constructed[c]
              /\ constructed[c] = 1 => HasConfig[c]
        /\ out.ok = HasConfig[arg.c]
        /\ out.ok  => (out.ret = 1 /\ _client[arg.c] = 1 /\ constructed[arg.c] = 1)
        /\ ~out.ok => (_client[arg.c] = 0 /\ constructed[arg.c] = 0)

\* the third call in a row of get_ca_client returned the one instance while
\* the other two clients were never asked for
C32_Witness ==
    /\ arg.fn = "get_client" /\ arg.c = "ca" /\ arg.n = 3
    /\ out.ok /\ out.ret = 1
    /\ constructed = [whatsapp |-> 0, ca |-> 1, gemini |-> 0]

----------------------------------------------------------------------------
\* C33: the pool's lifecycle: a job is enqueued only while a pool is open
\* (get_pool raises before init_pool and after close_pool, and nothing is
\* enqueued then); close_pool without an open pool changes nothing; and
\* whatever init_pool and close_pool calls were made, every pool that
\* init_pool created and that is no longer the current pool was closed.
C33_PoolLifecycle ==
    /\ [][nenq' # nenq => (_pool # None /\ _pool' = _pool)]_vars
    /\ [][(_pool = None /\ _pool' = None) => unclosed' = unclosed]_vars
    /\ []~unclosed

====
